---- MODULE Spec2Model ----
(***************************************************************************)
(* MultiReader (src/src/lib.rs): a reader that chains the readers yielded  *)
(* by an iterator.  The sources are the ones the crate's tests build:      *)
(* MaybeErrReader wrapped around io::repeat(byte).take(limit).             *)
(***************************************************************************)
EXTENDS Integers, Sequences, FiniteSets, TLC

VARIABLES readers, current, result, trace, delivered, nextCalls, ended,
          bufsOk, calls, buflen, zeroReads, solo, soloRes, items0

vars == <<readers, current, result, trace, delivered, nextCalls, ended,
          bufsOk, calls, buflen, zeroReads, solo, soloRes, items0>>

(* ---------------- bounds of the explored inputs ---------------- *)
MaxSources == 3
MaxLimit == 2
MaxBuf == 2
\* read calls are counted up to MaxCounted ("that many or more")
MaxCounted == 2
\* read calls made in the scenarios of the tests
MaxCalls == 42

(* ---------------- Option<R> ---------------- *)
None == [some |-> FALSE]

Some(r) == [some |-> TRUE, val |-> r]

(* ---------------- io::Result<usize> and the caller's buffer ------------ *)
Ok(n, b) == [kind |-> "Ok", n |-> n, data |-> [i \in 1..n |-> b], msg |-> ""]

Err(m) == [kind |-> "Err", n |-> 0, data |-> <<>>, msg |-> m]

NoResult == [kind |-> "NoCall", n |-> 0, data |-> <<>>, msg |-> ""]

Min(a, b) == IF a < b THEN a ELSE b

(* ---------------- the sources of the tests ---------------- *)
\* MaybeErrReader::good(io::repeat(b).take(l))
good(id, b, l) == [id |-> id, byte |-> b, limit |-> l, read_no |-> 0, fail_at |-> -1]

\* MaybeErrReader::broken(io::repeat(b).take(l), f)
broken(id, b, l, f) == [id |-> id, byte |-> b, limit |-> l, read_no |-> 0, fail_at |-> f]

\* io::repeat(b).take(l) read into a buffer of len bytes: min(len, limit) copies of b
TakeRead(s, len) ==
  LET n == Min(len, s.limit)
  IN [src |-> [s EXCEPT !.limit = s.limit - n], res |-> Ok(n, s.byte)]

\* MaybeErrReader::read
MaybeErrRead(s, len) ==
  LET s1 == [s EXCEPT !.read_no = s.read_no + 1]
  IN IF s1.read_no = s1.fail_at + 1
       THEN [src |-> s1, res |-> Err("I'm broken")]
       ELSE TakeRead(s1, len)

(* ---------------- the iterator of sources ---------------- *)
\* Iterator::next on the remaining items; an item is Some(source), or None for
\* an iterator that reports the end and may later yield again (not fused).
IterNext(it) ==
  IF it = <<>> THEN [item |-> None, rest |-> <<>>]
  ELSE [item |-> Head(it), rest |-> Tail(it)]

(* ---------------- events of one read call (observation) ---------------- *)
EvRead(id, r) == [op |-> "read", src |-> id, kind |-> r.kind, n |-> r.n]

EvNext(item) == [op |-> "next", src |-> IF item.some THEN item.val.id ELSE -1,
                 kind |-> IF item.some THEN "Some" ELSE "None", n |-> 0]

(* ---------------- MultiReader::read ---------------- *)
\* The arms of one iteration of the loop, on m = [readers, current]; d is the
\* outcome of the delegated read r.read(buf) and ev its event.  done says that
\* the call returns res; otherwise the loop goes round again.

\* variant: the failing source is skipped
OnErrSkips(m, d, ev) ==
  LET nx == IterNext(m.readers)
  IN [done |-> TRUE, res |-> d.res, ev |-> <<ev, EvNext(nx.item)>>,
      m |-> [readers |-> nx.rest, current |-> nx.item]]

\* try!(r.read(buf)) on Err: the error is returned, the source stays current
OnErr(m, d, ev) ==
  [done |-> TRUE, res |-> d.res, ev |-> <<ev>>,
   m |-> [m EXCEPT !.current = Some(d.src)]]

\* variant: the source is dropped after any successful read
OnDataAdvances(m, d, ev) ==
  LET nx == IterNext(m.readers)
  IN [done |-> TRUE, res |-> d.res, ev |-> <<ev, EvNext(nx.item)>>,
      m |-> [readers |-> nx.rest, current |-> nx.item]]

\* variant: a read that fills less than the buffer is taken for the end of the
\* source, and the next one is pulled at once
OnDataShort(m, d, ev) ==
  IF d.src.limit = 0
    THEN LET nx == IterNext(m.readers)
         IN [done |-> TRUE, res |-> d.res, ev |-> <<ev, EvNext(nx.item)>>,
             m |-> [readers |-> nx.rest, current |-> nx.item]]
    ELSE [done |-> TRUE, res |-> d.res, ev |-> <<ev>>,
          m |-> [m EXCEPT !.current = Some(d.src)]]

\* if n > 0 { return Ok(n); }
OnData(m, d, ev) ==
  [done |-> TRUE, res |-> d.res, ev |-> <<ev>>,
   m |-> [m EXCEPT !.current = Some(d.src)]]

\* variant: the zero-length read is handed to the caller
OnZeroReturns(m, d, ev) ==
  LET nx == IterNext(m.readers)
  IN [done |-> TRUE, res |-> d.res, ev |-> <<ev, EvNext(nx.item)>>,
      m |-> [readers |-> nx.rest, current |-> nx.item]]

\* variant: a source that yields nothing is reported as an error
OnZeroFails(m, d, ev) ==
  [done |-> TRUE, res |-> Err("unexpected end of file"), ev |-> <<ev>>,
   m |-> [m EXCEPT !.current = Some(d.src)]]

\* variant: a source that still holds bytes is kept when it returns 0 (to an
\* empty buffer), as io::Chain does
OnZeroKeepsUnread(m, d, ev) ==
  IF d.src.limit > 0
    THEN [done |-> TRUE, res |-> d.res, ev |-> <<ev>>,
          m |-> [m EXCEPT !.current = Some(d.src)]]
    ELSE LET nx == IterNext(m.readers)
         IN [done |-> FALSE, res |-> d.res, ev |-> <<ev, EvNext(nx.item)>>,
             m |-> [readers |-> nx.rest, current |-> nx.item]]

\* variant: the first zero-length read of a source is tried again
OnZeroRetries(m, d, ev) ==
  IF d.src.read_no = 1
    THEN [done |-> FALSE, res |-> d.res, ev |-> <<ev>>,
          m |-> [m EXCEPT !.current = Some(d.src)]]
    ELSE LET nx == IterNext(m.readers)
         IN [done |-> FALSE, res |-> d.res, ev |-> <<ev, EvNext(nx.item)>>,
             m |-> [readers |-> nx.rest, current |-> nx.item]]

\* n = 0: self.current = self.readers.next(), and the loop goes round
OnZero(m, d, ev) ==
  LET nx == IterNext(m.readers)
  IN [done |-> FALSE, res |-> d.res, ev |-> <<ev, EvNext(nx.item)>>,
      m |-> [readers |-> nx.rest, current |-> nx.item]]

\* variant: the iterator is asked again when there is no current source
OnNoneAsksAgain(m) ==
  LET nx == IterNext(m.readers)
  IN [done |-> ~nx.item.some, res |-> Ok(0, 0), ev |-> <<EvNext(nx.item)>>,
      m |-> [readers |-> nx.rest, current |-> nx.item]]

\* variant: running out of sources is an error
OnNoneFails(m) ==
  [done |-> TRUE, res |-> Err("no readers left"), ev |-> <<>>, m |-> m]

\* None => return Ok(0)
OnNone(m) ==
  [done |-> TRUE, res |-> Ok(0, 0), ev |-> <<>>, m |-> m]

\* One iteration of the loop of MultiReader::read.
LoopStep(m, len) ==
  IF m.current.some
    THEN LET d == MaybeErrRead(m.current.val, len)
             ev == EvRead(m.current.val.id, d.res)
         IN IF d.res.kind = "Err" THEN OnErr(m, d, ev)
            ELSE IF d.res.n > 0 THEN OnData(m, d, ev)
            ELSE OnZero(m, d, ev)
    ELSE OnNone(m)

RECURSIVE ReadLoop(_, _, _)
ReadLoop(m, len, tr) ==
  LET s == LoopStep(m, len)
  IN IF s.done
       THEN [m |-> s.m, res |-> s.res, trace |-> tr \o s.ev]
       ELSE ReadLoop(s.m, len, tr \o s.ev)

ZeroReadsIn(tr) ==
  Cardinality({i \in 1..Len(tr) : tr[i].op = "read" /\ tr[i].kind = "Ok" /\ tr[i].n = 0})

NextsIn(tr) == Cardinality({i \in 1..Len(tr) : tr[i].op = "next"})

SawNone(tr) == \E i \in 1..Len(tr) : tr[i].op = "next" /\ tr[i].kind = "None"

(* ---------------- inputs ---------------- *)
\* fail_at of a broken source: its first or its second read fails
FailAts == {0, 1}

\* The source at position i (0-based) repeats the byte i, as in
\* test_several_readers; at most one source is broken, as in test_err_during_read
\* (brk is its position, 0 for none).
MkItems(ls, brk, f) ==
  [i \in 1..Len(ls) |->
     Some(IF i = brk THEN broken(i - 1, (i - 1) % 256, ls[i], f)
          ELSE good(i - 1, (i - 1) % 256, ls[i]))]

\* what a non-fused iterator yields after its sources: it reports the end
\* twice and would then yield one more source
Late(n) == <<None, None, Some(good(n, n % 256, 1))>>

Limits == UNION {[1..n -> 0..MaxLimit] : n \in 0..MaxSources}

Plain == {MkItems(ls, 0, 0) : ls \in Limits}
           \cup {MkItems(ls, brk, f) : ls \in Limits, brk \in 1..MaxSources, f \in FailAts}

Inputs == Plain \cup {it \o Late(Len(it)) : it \in Plain}

(* ---------------- MultiReader::new ---------------- *)
\* variant: the first source is not pulled at construction
NewLazy(items) == [readers |-> items, current |-> None]

New(items) ==
  LET nx == IterNext(items)
  IN [readers |-> nx.rest, current |-> nx.item]

\* The state after MultiReader::new(items.into_iter()).
Start(items) ==
  /\ items0 = items
  /\ readers = New(items).readers
  /\ current = New(items).current
  /\ result = NoResult
  /\ trace = <<>>
  /\ delivered = <<>>
  /\ nextCalls = 1
  /\ ended = ~New(items).current.some
  /\ bufsOk = TRUE
  /\ calls = 0
  /\ buflen = 0
  /\ zeroReads = 0
  /\ solo = IF items = <<>> THEN None ELSE Head(items)
  /\ soloRes = NoResult

\* The first source read on its own, by source.read(&mut buf) with the same
\* buffer, for as long as it has not returned Ok(0); after that, Ok(0).
SoloRead(s, len) ==
  IF s.some
    THEN LET d == MaybeErrRead(s.val, len)
         IN [src |-> IF d.res.kind = "Ok" /\ d.res.n = 0 THEN None ELSE Some(d.src),
             res |-> d.res]
    ELSE [src |-> None, res |-> Ok(0, 0)]

Init == \E items \in Inputs : Start(items)

\* A call m.read(&mut buf) with buf.len() = len; calls are counted up to cap,
\* and bufsOk records that every call so far had a buffer of the length under
\* study (fits: non-empty in Spec, the length the test uses in its scenario).
Read(len, cap, fits) ==
  LET r == ReadLoop([readers |-> readers, current |-> current], len, <<>>)
  IN /\ readers' = r.m.readers
     /\ current' = r.m.current
     /\ result' = r.res
     /\ trace' = r.trace
     /\ delivered' = delivered \o r.res.data
     /\ nextCalls' = nextCalls + NextsIn(r.trace)
     /\ ended' = (ended \/ SawNone(r.trace))
     /\ bufsOk' = (bufsOk /\ fits)
     /\ calls' = Min(calls + 1, cap)
     /\ buflen' = len
     /\ zeroReads' = zeroReads + ZeroReadsIn(r.trace)
     /\ solo' = SoloRead(solo, len).src
     /\ soloRes' = SoloRead(solo, len).res
     /\ UNCHANGED items0

Next == \E len \in 0..MaxBuf : Read(len, MaxCounted, len > 0)

Spec == Init /\ [][Next]_vars

(* ---------------- test_several_readers ---------------- *)
NSources == 20
SourceLen == 3
SmallBuf == 2
TailBuf == 10

\* for i in 0..20 { sources.push(io::repeat(i).take(3)) }; a plain source
\* behaves as a MaybeErrReader that never fails
SeveralItems == [i \in 1..NSources |-> Some(good(i - 1, (i - 1) % 256, SourceLen))]

InitSeveral == Start(SeveralItems)

\* the reads of the test: into [0; 2], and into [0; 10]
NextSeveral ==
  \E len \in {SmallBuf, TailBuf} :
    calls < MaxCalls /\ Read(len, MaxCalls, len = SmallBuf)

SpecSeveral == InitSeveral /\ [][NextSeveral]_vars

(* ---------------- test_err_during_read ---------------- *)
GoodLen == 10
BrokenLen == 2048
BrokenAt == 1
BigBuf == 1024

\* vec![s0, s1, s2]
ErrItems == <<Some(good(0, 0, GoodLen)),
              Some(broken(1, 0, BrokenLen, BrokenAt)),
              Some(good(2, 0, GoodLen))>>

InitErr == Start(ErrItems)

\* the reads of the test, into [0; 1024], and reads into a smaller buffer
NextErr ==
  \E len \in {TailBuf, BigBuf} :
    calls < MaxCalls /\ Read(len, MaxCalls, len = BigBuf)

SpecErr == InitErr /\ [][NextErr]_vars

(* ---------------- test_single_reader ---------------- *)
SingleLen == 10
SingleBuf == 4

\* vec![source]: one source of up to 10 bytes, io::repeat(0).take(10) in the
\* test, that never fails or fails once
SingleItems(l, f) == <<Some(broken(0, 0, l, f))>>

InitSingle == \E l \in 0..SingleLen, f \in {-1} \cup FailAts : Start(SingleItems(l, f))

\* reads into [0; 4], as in the test, and into shorter buffers
NextSingle == \E len \in 0..SingleBuf : Read(len, MaxCounted, len = SingleBuf)

SpecSingle == InitSingle /\ [][NextSingle]_vars

(* ---------------- reference values ---------------- *)
\* the bytes a source holds
Bytes(src) == [i \in 1..src.limit |-> src.byte]

\* the concatenated bytes of the sources the iterator yields before it first
\* reports the end
RECURSIVE Content(_)
Content(items) ==
  IF items = <<>> THEN <<>>
  ELSE IF ~Head(items).some THEN <<>>
  ELSE Bytes(Head(items).val) \o Content(Tail(items))

IsPrefix(a, b) == Len(a) <= Len(b) /\ a = SubSeq(b, 1, Len(a))

ReturnedZero == result.kind = "Ok" /\ result.n = 0

(* ---------------- C1 ---------------- *)
\* C1 as stated: whatever the buffer sizes, once read has returned 0 the bytes
\* delivered are exactly the concatenation B of the sources' bytes.
C1_AnyBuffer == ReturnedZero => delivered = Content(items0)

\* C1 (amended): when every call has a buffer of at least one byte, the bytes
\* delivered are always a prefix of B, and they are exactly B once read has
\* returned 0: no byte is lost, duplicated or reordered, however B is split
\* over the sources.
C1_Concatenation ==
  bufsOk => /\ IsPrefix(delivered, Content(items0))
            /\ (ReturnedZero => delivered = Content(items0))

\* read to the end, B coming from at least two sources and at least three calls
C1_Witness ==
  /\ bufsOk /\ ReturnedZero
  /\ Len(delivered) >= 3
  /\ delivered[1] # delivered[Len(delivered)]
  /\ delivered = Content(items0)

(* ---------------- shapes of the input and of a call ---------------- *)
\* a source whose first read is a zero-length successful read
EmptySource(src) == src.limit = 0 /\ src.fail_at # 0

\* the items the iterator yields before it first reports the end
RECURSIVE Yielded(_)
Yielded(items) ==
  IF items = <<>> THEN <<>>
  ELSE IF ~Head(items).some THEN <<>>
  ELSE <<Head(items).val>> \o Yielded(Tail(items))

AllEmpty(items) == \A i \in 1..Len(Yielded(items)) : EmptySource(Yielded(items)[i])

\* [empty, empty, S] with S non-empty
EmptyEmptyS(items) ==
  /\ Len(Yielded(items)) = 3
  /\ EmptySource(Yielded(items)[1])
  /\ EmptySource(Yielded(items)[2])
  /\ Yielded(items)[3].limit > 0

\* the items after the one of identity id
After(items, id) == SubSeq(items, id + 2, Len(items))

Last(tr) == tr[Len(tr)]

ReadsIn(tr) == {i \in 1..Len(tr) : tr[i].op = "read"}

(* ---------------- C2 ---------------- *)
\* C2 as stated: read returns Ok(0) only with current = None, and on
\* [empty, empty, S] no read returns Ok(0) before all of S has been delivered.
C2_AsStated ==
  /\ (ReturnedZero => ~current.some)
  /\ (EmptyEmptyS(items0) /\ ReturnedZero => delivered = Bytes(Yielded(items0)[3]))

\* C2 (amended): read returns Ok(0) only when current is None as it returns;
\* and when every call has a buffer of at least one byte, on [empty, empty, S]
\* no read returns Ok(0) before all of S has been delivered, and what is
\* delivered is S's content.
C2_ZeroOnlyAtEnd ==
  /\ (ReturnedZero => ~current.some)
  /\ (bufsOk /\ EmptyEmptyS(items0) =>
        /\ IsPrefix(delivered, Bytes(Yielded(items0)[3]))
        /\ (ReturnedZero => delivered = Bytes(Yielded(items0)[3])))

\* [empty, empty, S] read to the end with non-empty buffers
C2_Witness ==
  /\ bufsOk /\ EmptyEmptyS(items0) /\ ReturnedZero
  /\ delivered = Bytes(Yielded(items0)[3])

(* ---------------- C3 ---------------- *)
\* C3: once a read call has returned Ok(0) with current = None, every later
\* call returns Ok(0), never an error, and current stays None.
C3_DrainedAbsorbing ==
  [][(ReturnedZero /\ ~current.some) => (result'.kind = "Ok" /\ result'.n = 0 /\ ~current'.some)]_vars

\* a call made in the Drained state, with a non-empty buffer, while the
\* iterator would still yield a source if asked
C3_Witness ==
  /\ ReturnedZero /\ ~current.some /\ calls >= 2 /\ trace = <<>>
  /\ buflen > 0 /\ readers # <<>> /\ delivered # <<>>

(* ---------------- C4 ---------------- *)
\* what holds after a call that returned an error
C4_AfterErr ==
  result.kind = "Err" =>
    /\ trace # <<>>
    /\ Last(trace).op = "read" /\ Last(trace).kind = "Err"
    /\ result.msg = "I'm broken"
    /\ current.some /\ current.val.id = Last(trace).src
    /\ readers = After(items0, Last(trace).src)

\* C4: a failing delegated read ends the call with that error; nothing is
\* pulled or read after it, the failing source stays current and the iterator
\* stays where it was at the failing read (a call whose first delegated read
\* fails changes nothing but the source's own read counter), and the next call
\* reads that same source first.
C4_ErrorLeavesSource ==
  [][/\ C4_AfterErr'
     /\ (result'.kind = "Err" /\ Len(trace') = 1 =>
           /\ readers' = readers
           /\ current' = Some([current.val EXCEPT !.read_no = @ + 1]))
     /\ (result.kind = "Err" =>
           /\ trace' # <<>>
           /\ trace'[1].op = "read" /\ trace'[1].src = current.val.id)]_vars

\* the source that failed has been read again, successfully, by the next
\* call, and later sources are still unpulled
C4_Witness ==
  /\ result.kind = "Ok" /\ result.n > 0 /\ Len(trace) = 1
  /\ current.some /\ current.val.fail_at >= 0
  /\ current.val.read_no = current.val.fail_at + 2
  /\ readers # <<>>

(* ---------------- C5 ---------------- *)
\* C5: a call that returns n > 0 ends with the delegated read that returned
\* n: it is the only non-empty read of the call, all n bytes are that
\* source's, the source stays current (even when it has no byte left and the
\* buffer has room), and the iterator is not pulled after it.
C5_OneSourcePerCall ==
  (result.kind = "Ok" /\ result.n > 0) =>
    /\ trace # <<>>
    /\ Last(trace).op = "read" /\ Last(trace).kind = "Ok" /\ Last(trace).n = result.n
    /\ \A i \in ReadsIn(trace) : i # Len(trace) => trace[i].n = 0
    /\ current.some /\ current.val.id = Last(trace).src
    /\ result.n <= buflen
    /\ result.data = [i \in 1..result.n |-> current.val.byte]
    /\ readers = After(items0, current.val.id)

\* a call that returned fewer bytes than the buffer holds, although the next
\* source has bytes
C5_Witness ==
  /\ result.kind = "Ok" /\ result.n > 0 /\ result.n < buflen
  /\ current.some /\ current.val.limit = 0
  /\ readers # <<>> /\ Head(readers).some /\ Head(readers).val.limit > 0

(* ---------------- C6 ---------------- *)
\* C6: if the iterator yields no source, or only empty ones, the first read
\* call returns Ok(0).
C6_FirstReadOfEmpty == (calls = 1 /\ AllEmpty(items0)) => ReturnedZero

\* the first call, with a non-empty buffer, on three empty sources
C6_Witness ==
  /\ calls = 1 /\ AllEmpty(items0) /\ Len(Yielded(items0)) = 3
  /\ buflen > 0 /\ ReturnedZero

(* ---------------- C9 ---------------- *)
\* C9: once next() has returned None, in new or in read, next() is never
\* called again.
C9_NoNextAfterNone == [][ended => nextCalls' = nextCalls]_vars

\* read called after the iterator reported the end at construction, while it
\* would yield a source if asked again
C9_Witness ==
  /\ ended /\ nextCalls = 1 /\ calls >= 2 /\ buflen > 0
  /\ \E i \in 1..Len(readers) : readers[i].some

(* ---------------- C10 ---------------- *)
\* C10: read returns Err only when the last thing it did was a delegated read
\* of the current source that returned that Err; a call that ends with no
\* source left returns Ok(0).
C10_NoOwnFailure ==
  /\ (result.kind = "Err" =>
        /\ trace # <<>>
        /\ Last(trace).op = "read" /\ Last(trace).kind = "Err"
        /\ current.some /\ current.val.id = Last(trace).src
        /\ current.val.read_no = current.val.fail_at + 1
        /\ result.msg = "I'm broken")
  /\ (calls > 0 /\ ~current.some => ReturnedZero)

\* a call that ran out of sources, all bytes delivered, after the second read
\* of a source had failed
C10_Witness ==
  /\ calls > 0 /\ ~current.some /\ ReturnedZero /\ trace # <<>>
  /\ bufsOk /\ delivered = Content(items0)
  /\ \E i \in 1..Len(Yielded(items0)) : Yielded(items0)[i].fail_at = 1 /\ Yielded(items0)[i].limit > 1

(* ---------------- C7 ---------------- *)
\* C7 as stated: on [S1: 10 bytes, S2: second read fails, S3: 10 bytes] with
\* 1024-byte buffers, call 1 returns 10, call 2 returns S2's error, and the
\* reader then still holds S2 and has not pulled S3.
C7_AsStated ==
  bufsOk =>
    /\ (calls = 1 => result = Ok(GoodLen, 0) /\ current = Some([good(0, 0, 0) EXCEPT !.read_no = 1]))
    /\ (calls = 2 => /\ result = Err("I'm broken")
                     /\ current.some /\ current.val.id = 1
                     /\ readers = <<ErrItems[3]>>)

\* C7 (amended): call 1 returns 10 and leaves S1 current without pulling S2;
\* call 2 gets S1's zero-length read, pulls S2 and returns the 1024 bytes of
\* S2's first read; call 3 is S2's second read and returns its error, and
\* after it S2 is still current, S3 is unpulled and unread.
C7_ErrScenario ==
  bufsOk =>
    /\ (calls = 1 => /\ result = Ok(GoodLen, 0)
                     /\ trace = <<EvRead(0, Ok(GoodLen, 0))>>
                     /\ current = Some([good(0, 0, 0) EXCEPT !.read_no = 1])
                     /\ nextCalls = 1)
    /\ (calls = 2 => /\ result = Ok(BigBuf, 0)
                     /\ trace = <<EvRead(0, Ok(0, 0)), EvNext(ErrItems[2]),
                                  EvRead(1, Ok(BigBuf, 0))>>)
    /\ (calls = 3 => /\ result = Err("I'm broken")
                     /\ trace = <<EvRead(1, Err("I'm broken"))>>
                     /\ current.some /\ current.val.id = 1
                     /\ current.val.limit = BrokenLen - BigBuf
                     /\ readers = <<ErrItems[3]>>
                     /\ nextCalls = 2
                     /\ Len(delivered) = GoodLen + BigBuf)

\* the third 1024-byte read has returned the error
C7_Witness == bufsOk /\ calls = 3 /\ result.kind = "Err" /\ buflen = BigBuf

(* ---------------- C8 ---------------- *)
\* what call k returns when every source gives 2 bytes and then 1
Chunk(k) == Ok(SmallBuf - ((k - 1) % 2), (k - 1) \div 2)

StopsAtOnce(tr) ==
  \A i \in 1..Len(tr) :
    /\ (tr[i].op = "read" /\ i < Len(tr) =>
          tr[i].kind = "Ok" /\ tr[i].n = 0 /\ tr[i + 1].op = "next")
    /\ (tr[i].op = "read" /\ i = Len(tr) => tr[i].kind = "Err" \/ tr[i].n > 0)
    /\ (tr[i].op = "next" /\ i < Len(tr) =>
          tr[i].kind = "Some" /\ tr[i + 1].op = "read" /\ tr[i + 1].src = tr[i].src)
    /\ (tr[i].op = "next" /\ i = Len(tr) => tr[i].kind = "None")

\* the sources not yet dropped: the current one and those the iterator yields
\* before it reports the end
Remaining(cur, rs) == (IF cur.some THEN <<cur.val>> ELSE <<>>) \o Yielded(rs)

\* C11: a read call ends after at most one delegated read of each source not
\* yet dropped when it starts (no source is read twice in a call), and it
\* stops at its first non-zero read, error, or None from the iterator.
C11_CallIsBounded ==
  [][/\ Cardinality(ReadsIn(trace')) <= Len(Remaining(current, readers))
     /\ \A i, j \in ReadsIn(trace') : trace'[i].src = trace'[j].src => i = j
     /\ \A i \in ReadsIn(trace') :
          \E k \in 1..Len(Remaining(current, readers)) :
            Remaining(current, readers)[k].id = trace'[i].src
     /\ StopsAtOnce(trace')
     /\ result'.kind # "NoCall"]_vars

\* a call that read every one of three sources once and found the end
C11_Witness ==
  /\ Cardinality(ReadsIn(trace)) = 3 /\ Len(trace) = 6
  /\ buflen > 0 /\ calls = 1 /\ ReturnedZero

(* ---------------- C12 ---------------- *)
\* C12: current is None exactly when next() has returned None, at
\* construction or later; and then every source the iterator produced has
\* returned a zero-length successful read, next() having been called once
\* for each of them and once more.  While current is a source, it is the one
\* after the sources that returned zero, and the iterator holds what follows.
C12_NoneIffExhausted ==
  /\ (~current.some <=> ended)
  /\ (ended => /\ zeroReads = Len(Yielded(items0))
               /\ nextCalls = Len(Yielded(items0)) + 1)
  /\ (current.some => /\ current.val.id = zeroReads
                      /\ zeroReads < Len(Yielded(items0))
                      /\ readers = After(items0, current.val.id))

\* Drained after three sources, of which one failed once and bytes were read
C12_Witness ==
  /\ ~current.some /\ ended /\ zeroReads = 3 /\ bufsOk
  /\ delivered # <<>>
  /\ \E i \in 1..3 : items0[i].val.fail_at >= 0 /\ items0[i].val.limit > 0

(* ---------------- C13 ---------------- *)
\* every next() of a call comes right after a zero-length successful read,
\* and every such read is followed by a next()
NextOnlyAfterZero(tr) ==
  \A i \in 1..Len(tr) :
    /\ (tr[i].op = "next" =>
          i > 1 /\ tr[i - 1].op = "read" /\ tr[i - 1].kind = "Ok" /\ tr[i - 1].n = 0)
    /\ (tr[i].op = "read" /\ tr[i].kind = "Ok" /\ tr[i].n = 0 =>
          i < Len(tr) /\ tr[i + 1].op = "next")

\* the items the iterator has handed out so far
Pulled == SubSeq(items0, 1, Len(items0) - Len(readers))

\* C13: new calls next() once and reads no source; after that next() is
\* called once after each zero-length delegated read and at no other time, so
\* the number of next() calls is 1 plus the number of zero-length reads; the
\* iterator has handed out no more than that many items, and of the sources
\* handed out only the last can be held.
C13_NoReadAhead ==
  /\ nextCalls = 1 + zeroReads
  /\ NextOnlyAfterZero(trace)
  /\ Len(Pulled) <= nextCalls
  /\ (Len(readers) > 0 => Len(Pulled) = nextCalls)
  /\ (current.some => Pulled # <<>> /\ Last(Pulled) = Some([current.val EXCEPT
                          !.limit = Last(Pulled).val.limit, !.read_no = 0]))
  /\ (calls = 0 => /\ nextCalls = 1 /\ trace = <<>>
                   /\ (current.some => current.val.read_no = 0))

\* a call has returned bytes of the third source after two zero-length reads,
\* and the fourth item is still with the iterator
C13_Witness ==
  /\ nextCalls = 3 /\ zeroReads = 2 /\ result.kind = "Ok" /\ result.n > 0
  /\ current.some /\ current.val.id = 2 /\ readers # <<>>

(* ---------------- C14 ---------------- *)
\* C14: the reads of a call go to the current source and then, one by one,
\* to the sources after it, each after a zero-length read of the one before;
\* the source being read is the one whose position is the number of
\* zero-length reads so far, so it never goes back and a source that has
\* returned Ok(0) is not read again, whatever it still holds.
C14_InOrderNeverRevisited ==
  [][/\ \A i \in ReadsIn(trace') :
          /\ current.some /\ trace'[i].src >= current.val.id
          /\ trace'[i].src =
               zeroReads + Cardinality({j \in ReadsIn(trace') : j < i /\ trace'[j].n = 0
                                                               /\ trace'[j].kind = "Ok"})
     /\ (current.some => current.val.id = zeroReads)
     /\ (current'.some => /\ current'.val.id = zeroReads'
                          /\ current.some /\ current'.val.id >= current.val.id)]_vars

\* the first source returned Ok(0) to an empty buffer while it held bytes,
\* and a later call delivered the bytes of a later source instead
C14_Witness ==
  /\ ~bufsOk /\ buflen > 0 /\ result.kind = "Ok" /\ result.n > 0
  /\ current.some /\ current.val.id >= 1
  /\ items0[1].val.limit > 0
  /\ delivered[1] = current.val.byte

(* ---------------- C15 ---------------- *)
\* C15: over a single source S, every read call returns the byte count and
\* the bytes (or the error) that S returns when read on its own with the same
\* buffers, until S first returns 0, and 0 after that; a 10-byte source read
\* with 4-byte buffers gives 4, 4, 2 and then 0.
C15_SingleSourceSame ==
  /\ (calls > 0 => result = soloRes)
  /\ (bufsOk /\ calls > 0 /\ items0 = SingleItems(SingleLen, -1) =>
        <<Len(delivered), result.n>> \in {<<4, 4>>, <<8, 4>>, <<10, 2>>, <<10, 0>>})

\* the 10-byte source of the test read to its end with 4-byte buffers
C15_Witness ==
  /\ bufsOk /\ items0 = SingleItems(SingleLen, -1)
  /\ Len(delivered) = SingleLen /\ ReturnedZero /\ ~solo.some

(* ---------------- C16 ---------------- *)
\* C16: a read call with a zero-length buffer in which every delegated read
\* answers Ok(0) (none fails) reads each remaining source once, drops them
\* all and returns Ok(0) with current = None; every later call, also with a
\* non-empty buffer, returns Ok(0) and delivers nothing, whatever the dropped
\* sources held.
C16_EmptyBufferDrains ==
  [][/\ (buflen' = 0 /\ result'.kind # "Err" =>
           /\ ReturnedZero' /\ ~current'.some /\ ended'
           /\ Cardinality(ReadsIn(trace')) = Len(Remaining(current, readers))
           /\ \A i \in ReadsIn(trace') : trace'[i].kind = "Ok" /\ trace'[i].n = 0
           /\ delivered' = delivered)
     /\ (~current.some => ReturnedZero' /\ trace' = <<>> /\ delivered' = delivered)]_vars

\* the first call, with an empty buffer, dropped three sources that held
\* bytes, and a later call with a non-empty buffer has returned 0
C16_Witness ==
  /\ ~bufsOk /\ buflen > 0 /\ calls >= 2 /\ ReturnedZero /\ trace = <<>>
  /\ delivered = <<>> /\ zeroReads = 3
  /\ \A i \in 1..3 : items0[i].val.limit > 0

(* ---------------- C17 ---------------- *)
\* the bytes still to come: those of the sources not yet dropped
RECURSIVE BytesOf(_)
BytesOf(srcs) ==
  IF srcs = <<>> THEN <<>> ELSE Bytes(Head(srcs)) \o BytesOf(Tail(srcs))

StreamLeft(cur, rs) == BytesOf(Remaining(cur, rs))

\* C17: with buffers of at least one byte, at every moment the bytes
\* delivered followed by the bytes the remaining sources hold are the
\* concatenation of the sources' bytes, also after calls that failed; a
\* failing call delivers nothing and leaves the bytes to come as they were,
\* so no source is skipped and no byte is repeated because of an error.
C17_ErrorsKeepStream ==
  [][/\ (bufsOk' => delivered' \o StreamLeft(current', readers') = Content(items0))
     /\ (result'.kind = "Err" /\ buflen' > 0 =>
           /\ delivered' = delivered
           /\ StreamLeft(current', readers') = StreamLeft(current, readers))]_vars

\* three non-empty sources read to the end, the first read of the second
\* one having failed
C17_Witness ==
  /\ bufsOk /\ ReturnedZero /\ Len(Yielded(items0)) = 3
  /\ \A i \in 1..3 : items0[i].val.limit > 0
  /\ items0[2].val.fail_at = 0
  /\ delivered = Content(items0)

====
